---------------------------- MODULE Spec2Model ----------------------------
(***************************************************************************)
(* PetPlantr API server (src/api_server.py): the two rate limiters, the    *)
(* job registry with its background task, and the enhanced generation      *)
(* pipeline with its poller.                                               *)
(*                                                                         *)
(* Time is counted in ticks of 1/TicksPerSec second, so that time.time()   *)
(* keeps a fractional part and int(...) truncates.  The handlers are       *)
(* `async def` coroutines on one event loop: code between two awaits is    *)
(* one atomic step.                                                        *)
(***************************************************************************)
EXTENDS Integers, Sequences, FiniteSets, TLC

(***************************************************************************)
(* Bounds.  The program's own numbers (50 and 100 requests, 3600 s,        *)
(* 30 attempts) are scaled down; the scaled definitions keep the source's  *)
(* names.                                                                  *)
(***************************************************************************)
\* ticks per second of the model's clock
TicksPerSec == 2
\* last tick of the model's clock
MaxTime == 9
\* api_server.py:30  MAX_REQUESTS_PER_HOUR = 50, scaled
MAX_REQUESTS_PER_HOUR == 2
\* api_server.py:363 hour_ms = 3600 (seconds), scaled
hour_ms == 2
\* api_server.py:343 the literal 100 of check_rate_limit, scaled
USER_LIMIT == 1

\* api_server.py:339 the literal 3600 (seconds) of check_rate_limit, scaled
USER_WINDOW == 1
\* api_server.py:1197 max_attempts: int = 30, scaled
max_attempts == 3
\* values uuid.uuid4().hex[:8] can take
MaxUuid == 2
\* jobs created in one run of the model
MaxJobs == 2
\* last tick of the clock while jobs run
JobMaxTime == 2

\* Python's None, and a dictionary key that is absent
None == "None"

VARIABLES
    now,            \* time.time(), in ticks
    request_log,    \* api_server.py:39   client_id -> {count, reset_time}
    rlLast,         \* the last call of check_rate_limit_enhanced and its outcome
    admitted,       \* history: requests admitted per key since its last window reset
    keyIn,          \* key extraction alone: the request's headers and client
    keyOut,         \* key extraction alone: the client_id computed, or None
    sbsRec,         \* side by side: the record of check_rate_limit_enhanced
    sbsLog,         \* side by side: the log of check_rate_limit
    sbsLast,        \* side by side: the last request and the two decisions
    user_requests,  \* api_server.py:326  user_id -> list of request times
    job_storage,    \* api_server.py:100  job_id -> job record
    task,           \* the background task of each job: position and locals
    running,        \* the job whose task is between two awaits (0: none)
    tempFiles,      \* jobs whose temporary input file exists on disk
    artifacts,      \* jobs whose output file (output_path) exists on disk
    neural_planter, \* api_server.py:101  what lifespan() loaded
    nextJob,        \* the uuid4 values handed out so far, plus one
    resp,           \* the last HTTP response of the job endpoints
    submitter,      \* history: the token each job of the registry was submitted with
    PRODUCTION_MODE,     \* api_server.py:34
    REPLICATE_API_TOKEN, \* api_server.py:35  TRUE: a token is configured
    pipe,           \* the enhanced generation request being served
    poll,           \* the provider's job and the poll_replicate_job call on it
    procedural_runs, \* history: each run of the procedural branch, request and reference
    batch           \* breed.py: the batch-detect request being served

rlVars  == <<request_log, rlLast, admitted>>
keyVars == <<keyIn, keyOut>>
sbsVars == <<sbsRec, sbsLog, sbsLast>>
jobVars == <<user_requests, job_storage, task, running, tempFiles, artifacts,
             neural_planter, nextJob, resp, submitter>>
pipeVars == <<PRODUCTION_MODE, REPLICATE_API_TOKEN, pipe, poll, procedural_runs>>
batchVars == <<batch>>
vars    == <<now, request_log, rlLast, admitted, keyIn, keyOut, sbsRec, sbsLog, sbsLast,
             user_requests, job_storage, task, running, tempFiles, artifacts,
             neural_planter, nextJob, resp, submitter,
             PRODUCTION_MODE, REPLICATE_API_TOKEN, pipe, poll, procedural_runs, batch>>

(***************************************************************************)
(* Python helpers                                                          *)
(***************************************************************************)
\* truthiness of an optional string: None and '' are falsy
Truthy(s) == s # None /\ s # ""

\* `a or b`
Or(a, b) == IF Truthy(a) THEN a ELSE b

\* int(x) of a non-negative duration given in ticks: whole seconds
IntSeconds(ticks) == ticks \div TicksPerSec

\* a duration in seconds, in ticks
Seconds(s) == s * TicksPerSec

(***************************************************************************)
(* check_rate_limit_enhanced: key extraction                               *)
(*   client_id = ( h.get('x-forwarded-for') or h.get('x-real-ip') or       *)
(*                 str(request.client.host) if request.client              *)
(*                 else 'anonymous' )                                      *)
(* The conditional expression binds weaker than `or`: the whole `or` chain *)
(* is its first branch.                                                    *)
(***************************************************************************)
ClientId(xff, xri, client) ==
    IF client # None THEN Or(xff, Or(xri, client)) ELSE "anonymous"

(***************************************************************************)
(* check_rate_limit_enhanced: the fixed-window state machine.              *)
(* log is request_log; the result is the new request_log, the decision     *)
(* and, for a rejection, the seconds printed in the detail.                *)
(***************************************************************************)
\* request_log as a total function: has is `client_id in request_log`
Absent == [has |-> FALSE, count |-> 0, reset_time |-> 0]

\* {'count': 1, 'reset_time': now + hour_ms}
Fresh(t, window) == [has |-> TRUE, count |-> 1, reset_time |-> t + window]

RateLimitEnhancedOneWindow(log, client_id, t, threshold, window) ==
    IF ~log[client_id].has \/ t > log[client_id].reset_time
    THEN [log |-> [k \in DOMAIN log |-> Fresh(t, window)], allowed |-> TRUE, retry |-> 0]
    ELSE IF log[client_id].count >= threshold
    THEN [log |-> log, allowed |-> FALSE,
          retry |-> IntSeconds(log[client_id].reset_time - t)]
    ELSE [log |-> [log EXCEPT ![client_id].count = @ + 1], allowed |-> TRUE, retry |-> 0]

RateLimitEnhancedOffByOne(log, client_id, t, threshold, window) ==
    IF ~log[client_id].has
    THEN [log |-> [log EXCEPT ![client_id] = Fresh(t, window)], allowed |-> TRUE, retry |-> 0]
    ELSE IF t > log[client_id].reset_time
    THEN [log |-> [log EXCEPT ![client_id] = Fresh(t, window)], allowed |-> TRUE, retry |-> 0]
    ELSE IF log[client_id].count > threshold
    THEN [log |-> log, allowed |-> FALSE,
          retry |-> IntSeconds(log[client_id].reset_time - t)]
    ELSE [log |-> [log EXCEPT ![client_id].count = @ + 1], allowed |-> TRUE, retry |-> 0]

RateLimitEnhancedResetAtBoundary(log, client_id, t, threshold, window) ==
    IF ~log[client_id].has
    THEN [log |-> [log EXCEPT ![client_id] = Fresh(t, window)], allowed |-> TRUE, retry |-> 0]
    ELSE IF t >= log[client_id].reset_time
    THEN [log |-> [log EXCEPT ![client_id] = Fresh(t, window)], allowed |-> TRUE, retry |-> 0]
    ELSE IF log[client_id].count >= threshold
    THEN [log |-> log, allowed |-> FALSE,
          retry |-> IntSeconds(log[client_id].reset_time - t)]
    ELSE [log |-> [log EXCEPT ![client_id].count = @ + 1], allowed |-> TRUE, retry |-> 0]

\* retry is read only when allowed is FALSE (the request raised 429)
RateLimitEnhanced(log, client_id, t, threshold, window) ==
    IF ~log[client_id].has
    THEN [log |-> [log EXCEPT ![client_id] = Fresh(t, window)], allowed |-> TRUE, retry |-> 0]
    ELSE IF t > log[client_id].reset_time
    THEN [log |-> [log EXCEPT ![client_id] = Fresh(t, window)], allowed |-> TRUE, retry |-> 0]
    ELSE IF log[client_id].count >= threshold
    THEN [log |-> log, allowed |-> FALSE,
          retry |-> IntSeconds(log[client_id].reset_time - t)]
    ELSE [log |-> [log EXCEPT ![client_id].count = @ + 1], allowed |-> TRUE, retry |-> 0]

(***************************************************************************)
(* check_rate_limit: a log of request times per user; times older than the *)
(* window are dropped, then the length is compared with the limit.         *)
(***************************************************************************)
RECURSIVE Recent(_, _, _)
Recent(log, t, window) ==
    IF log = <<>> THEN <<>>
    ELSE IF t - Head(log) < window
         THEN <<Head(log)>> \o Recent(Tail(log), t, window)
         ELSE Recent(Tail(log), t, window)

RateLimitUserNeverRejects(log, t, limit, window) ==
    [log |-> Append(Recent(log, t, window), t), allowed |-> TRUE]

RateLimitUserRecordsRejected(log, t, limit, window) ==
    LET kept == Recent(log, t, window) IN
    [log |-> Append(kept, t), allowed |-> Len(kept) < limit]

RateLimitUserOffByOne(log, t, limit, window) ==
    LET kept == Recent(log, t, window) IN
    IF Len(kept) > limit
    THEN [log |-> kept, allowed |-> FALSE]
    ELSE [log |-> Append(kept, t), allowed |-> TRUE]

RateLimitUser(log, t, limit, window) ==
    LET kept == Recent(log, t, window) IN
    IF Len(kept) >= limit
    THEN [log |-> kept, allowed |-> FALSE]
    ELSE [log |-> Append(kept, t), allowed |-> TRUE]

(***************************************************************************)
(* The job registry: job_storage[job_id] is a dict.  An absent key of the  *)
(* dict is None (strings) or -1 (numbers); has is `job_id in job_storage`. *)
(***************************************************************************)
JobIds == 1..MaxJobs

NoJob == [has |-> FALSE, status |-> None, progress |-> -1, created_at |-> -1,
          completed_at |-> -1, stl_file_path |-> None, processing_time |-> -1,
          quality_score |-> -1, metadata_user_id |-> None, error |-> None]

\* GenerationStatus(job_id, status="pending", progress=0.0, created_at=...).dict():
\* estimated_time_remaining and completed_at are present with the value None
NewJob(t) == [NoJob EXCEPT !.has = TRUE, !.status = "pending", !.progress = 0,
                           !.created_at = t]

\* time.strftime("%Y-%m-%d %H:%M:%S UTC"): the time to the second
Strftime(t) == IntSeconds(t)

Uuid4Reused(next) == 1
\* line 541: job_id = str(uuid.uuid4()), an id no earlier call returned; ids
\* are numbered in the order they are drawn
Uuid4(next) == next

\* the task of a job: where it stands, the exception it is handling, the
\* value of `result`
NoTask == [pc |-> "none", exc |-> None, result |-> None]

\* no GenerationResult in the response
NoResult == [status |-> None, stl_file_url |-> FALSE, processing_time |-> -1,
             quality_score |-> -1, metadata_user_id |-> None]

\* lines 709-720: the GenerationResult built from the record as it is when
\* the handler runs; stl_file_url is set for a completed job with a path
StatusResult(rec) ==
    [status |-> rec.status,
     stl_file_url |-> (rec.status = "completed" /\ rec.stl_file_path # None),
     processing_time |-> rec.processing_time,
     quality_score |-> rec.quality_score,
     metadata_user_id |-> rec.metadata_user_id]

\* the response of a handler that carries neither a result nor a list
Response(op, job, code) ==
    [result |-> NoResult, jobs |-> <<>>, op |-> op, job |-> job, code |-> code]

NoResp == Response(None, 0, 0)

\* get_current_user: any token starting with "pk_" is the user demo_user
Tokens == {"pk_a", "pk_b", "bad"}
ValidToken(token) == token \in {"pk_a", "pk_b"}
CurrentUser(token) == "demo_user"

CompletedUpdateNoPath(rec, t, path, ptime, score, user_id) ==
    [rec EXCEPT !.status = "completed", !.progress = 100, !.completed_at = Strftime(t),
                !.processing_time = ptime, !.quality_score = score,
                !.metadata_user_id = user_id]

CompletedUpdateNoProgress(rec, t, path, ptime, score, user_id) ==
    [rec EXCEPT !.status = "completed", !.completed_at = Strftime(t),
                !.stl_file_path = path, !.processing_time = ptime,
                !.quality_score = score, !.metadata_user_id = user_id]

\* job_storage[job_id].update({"status": "completed", ...})
CompletedUpdate(rec, t, path, ptime, score, user_id) ==
    [rec EXCEPT !.status = "completed", !.progress = 100, !.completed_at = Strftime(t),
                !.stl_file_path = path, !.processing_time = ptime,
                !.quality_score = score, !.metadata_user_id = user_id]

\* job_storage[job_id].update({"status": "failed", "error": str(e), "completed_at": ...})
FailedUpdateNoCompletedAt(rec, t, cause) ==
    [rec EXCEPT !.status = "failed", !.error = cause]

FailedUpdateNoError(rec, t, cause) ==
    [rec EXCEPT !.status = "failed", !.completed_at = Strftime(t)]

FailedUpdate(rec, t, cause) ==
    [rec EXCEPT !.status = "failed", !.error = cause, !.completed_at = Strftime(t)]

\* delete_job's ownership check: metadata.get("user_id") != user["user_id"]
DeleteDeniedNever(rec, user_id) == FALSE

DeleteDenied(rec, user_id) == rec.metadata_user_id # user_id

(***************************************************************************)
(* The clock                                                               *)
(***************************************************************************)
Tick(last) ==
    /\ now < last
    /\ now' = now + 1
    /\ UNCHANGED <<rlVars, keyVars, sbsVars, jobVars, pipeVars, batchVars>>

(***************************************************************************)
(* SpecRL: the address-keyed limiter, requests from any client             *)
(***************************************************************************)
\* header values and client hosts of the limiter's requests
RLHeader == {None, "", "a"}
RLClient == {None, "a"}
RLKeys   == {"a", "anonymous"}

NoCall == [key |-> None, allowed |-> TRUE, retry |-> 0, before |-> Absent, after |-> Absent]
NoKeyIn == [xff |-> None, xri |-> None, client |-> None]
NoSbs == [n |-> 0, first |-> 0, at |-> 0, enhanced |-> TRUE, user |-> TRUE,
          admits |-> <<>>]

IdleRL ==
    /\ request_log = [k \in RLKeys |-> Absent]
    /\ rlLast = NoCall
    /\ admitted = [k \in RLKeys |-> 0]

IdleKey ==
    /\ keyIn = NoKeyIn
    /\ keyOut = None

IdleSBS ==
    /\ sbsRec = [k \in {"k"} |-> Absent]
    /\ sbsLog = <<>>
    /\ sbsLast = NoSbs

IdleJobs ==
    /\ user_requests = <<>>
    /\ job_storage = [j \in JobIds |-> NoJob]
    /\ task = [j \in JobIds |-> NoTask]
    /\ running = 0
    /\ tempFiles = {}
    /\ artifacts = {}
    /\ neural_planter = None
    /\ nextJob = 1
    /\ resp = NoResp
    /\ submitter = [j \in JobIds |-> None]

\* no enhanced generation request yet
NoPoll == [stage |-> None, kind |-> None, at |-> 0, output |-> None,
           queries |-> 0, outcome |-> None]
NoPipe == [pc |-> "idle", code |-> 0, success |-> FALSE, development_mode |-> FALSE,
           optKind |-> None, options |-> None, breed |-> None,
           analyze_answer |-> None,
           analysis |-> None, analysis_breed |-> None, analysis_confidence |-> 0,
           enhance |-> None, image |-> None, convert_input |-> None, convert |-> None,
           procedural |-> None, model |-> None,
           model_id |-> <<>>, stages |-> <<>>, error |-> None]

IdlePipe ==
    /\ PRODUCTION_MODE = FALSE
    /\ REPLICATE_API_TOKEN = FALSE
    /\ pipe = NoPipe
    /\ poll = NoPoll
    /\ procedural_runs = {}

\* no batch-detect request yet; the inference engine is loaded
NoBatch == [pc |-> "idle", inference_engine |-> TRUE, requests |-> <<>>, i |-> 0,
            loaded |-> 0, results |-> <<>>, code |-> 0, total_processed |-> 0]

IdleBatch == batch = NoBatch

InitRL ==
    /\ now = 0
    /\ IdleRL /\ IdleKey /\ IdleSBS /\ IdleJobs /\ IdlePipe /\ IdleBatch

\* the whole dependency: key extraction, then the state machine on that key
CheckRateLimitEnhanced ==
    \E xff \in RLHeader, xri \in RLHeader, client \in RLClient :
        LET client_id == ClientId(xff, xri, client)
            r == RateLimitEnhanced(request_log, client_id, now,
                                   MAX_REQUESTS_PER_HOUR, Seconds(hour_ms))
            reset == ~request_log[client_id].has
                     \/ r.log[client_id].reset_time # request_log[client_id].reset_time
        IN /\ request_log' = r.log
           /\ rlLast' = [key |-> client_id, allowed |-> r.allowed, retry |-> r.retry,
                         before |-> request_log[client_id], after |-> r.log[client_id]]
           /\ admitted' = [admitted EXCEPT ![client_id] =
                              IF ~r.allowed THEN @ ELSE IF reset THEN 1 ELSE @ + 1]
           /\ UNCHANGED <<now, keyVars, sbsVars, jobVars, pipeVars, batchVars>>

NextRL == Tick(MaxTime) \/ CheckRateLimitEnhanced

SpecRL == InitRL /\ [][NextRL]_vars

(***************************************************************************)
(* Claims about the address-keyed limiter (SpecRL)                         *)
(***************************************************************************)
\* the threshold and the window (in ticks) the limiter runs with
RLThreshold == MAX_REQUESTS_PER_HOUR
RLWindow == Seconds(hour_ms)

\* C5: every check for key k at time now does exactly one of (i) no record or
\* now > reset_at: count=1, reset_at=now+window, admit; (ii) count < threshold:
\* count+1, reset_at unchanged, admit; (iii) reject, count and reset_at unchanged.
C5_ThreeCases ==
    [][ now' = now =>
        LET k == rlLast'.key
            pre == request_log[k]
            post == request_log'[k]
        IN \/ /\ ~pre.has \/ now > pre.reset_time
              /\ post = [has |-> TRUE, count |-> 1, reset_time |-> now + RLWindow]
              /\ rlLast'.allowed
           \/ /\ pre.has /\ ~(now > pre.reset_time)
              /\ pre.count < RLThreshold
              /\ post = [pre EXCEPT !.count = pre.count + 1]
              /\ rlLast'.allowed
           \/ /\ pre.has /\ ~(now > pre.reset_time)
              /\ ~(pre.count < RLThreshold)
              /\ post = pre
              /\ ~rlLast'.allowed ]_vars

\* C5 witness: a request was rejected in a window that an expired window's
\* reset had started (cases (i) by expiry, (ii) and (iii) all happened)
C5_Witness ==
    /\ ~rlLast.allowed
    /\ rlLast.before.count = RLThreshold
    /\ rlLast.before.reset_time > 2 * RLWindow

\* C6: the (N+1)-th request of a window is rejected, and every rejection
\* reports a strictly positive retry-after.
C6_PositiveRetryAfter ==
    /\ \A k \in RLKeys : admitted[k] <= RLThreshold
    /\ ~rlLast.allowed => rlLast.before.count >= RLThreshold /\ rlLast.retry > 0

\* C7: every stored record has 1 <= count <= threshold, and no more than
\* threshold requests are admitted for a key between two window resets.
C7_CountBounded ==
    \A k \in RLKeys :
        /\ request_log[k].has =>
              request_log[k].count >= 1 /\ request_log[k].count <= RLThreshold
        /\ admitted[k] <= RLThreshold

\* C7 witness: a key's window is full and a further request was rejected
C7_Witness ==
    /\ rlLast.key \in RLKeys
    /\ ~rlLast.allowed
    /\ request_log[rlLast.key].count = RLThreshold
    /\ admitted[rlLast.key] = RLThreshold

\* C38: a check for key k, admitted or rejected, leaves the record of every
\* other key unchanged, and its decision is the one the record of k and the
\* time alone give, whatever the records of the other keys.
C38_KeysIndependent ==
    [][ now' = now =>
          LET k == rlLast'.key
              pre == request_log[k]
          IN /\ \A other \in RLKeys \ {k} : request_log'[other] = request_log[other]
             /\ rlLast'.allowed <=>
                   (~pre.has \/ now > pre.reset_time \/ pre.count < RLThreshold) ]_vars

\* C38 witness: a request of key 'a' was rejected on a full window while
\* the record of 'anonymous', started in a later window, holds one request
C38_Witness ==
    /\ rlLast.key = "a" /\ ~rlLast.allowed
    /\ request_log["a"].count = RLThreshold
    /\ request_log["anonymous"].has /\ request_log["anonymous"].count = 1
    /\ request_log["anonymous"].reset_time > request_log["a"].reset_time

(***************************************************************************)
(* SpecKey: the key extraction of check_rate_limit_enhanced alone          *)
(***************************************************************************)
KeyXff    == {None, "", "f1", "f2"}
KeyXri    == {None, "", "r1", "r2"}
KeyClient == {None, "h1", "h2", "h3"}

InitKey ==
    /\ now = 0
    /\ keyIn \in [xff : KeyXff, xri : KeyXri, client : KeyClient]
    /\ keyOut = None
    /\ IdleRL /\ IdleSBS /\ IdleJobs /\ IdlePipe /\ IdleBatch

ExtractKey ==
    /\ keyOut = None
    /\ keyOut' = ClientId(keyIn.xff, keyIn.xri, keyIn.client)
    /\ UNCHANGED <<now, keyIn, rlVars, sbsVars, jobVars, pipeVars, batchVars>>

NextKey == ExtractKey

SpecKey == InitKey /\ [][NextKey]_vars

\* C9: the key is the forwarded-address header if present, else the real-IP
\* header if present, else the connection address if the request has one, else
\* 'anonymous'; 'anonymous' only when all three are absent.
C9_KeyPrecedence ==
    keyOut # None =>
        /\ keyOut = IF Truthy(keyIn.xff) THEN keyIn.xff
                    ELSE IF Truthy(keyIn.xri) THEN keyIn.xri
                    ELSE IF keyIn.client # None THEN keyIn.client
                    ELSE "anonymous"
        /\ keyOut = "anonymous" =>
              ~Truthy(keyIn.xff) /\ ~Truthy(keyIn.xri) /\ keyIn.client = None

(***************************************************************************)
(* SpecSBS: check_rate_limit and check_rate_limit_enhanced side by side,   *)
(* one key, the same threshold and window, the same request times          *)
(***************************************************************************)
InitSBS ==
    /\ now = 0
    /\ IdleRL /\ IdleKey /\ IdleSBS /\ IdleJobs /\ IdlePipe /\ IdleBatch

SideBySide ==
    LET e == RateLimitEnhanced(sbsRec, "k", now, RLThreshold, RLWindow)
        u == RateLimitUser(sbsLog, now, RLThreshold, RLWindow)
    IN /\ sbsRec' = e.log
       /\ sbsLog' = u.log
       /\ sbsLast' = [n |-> IF sbsLast.n = 0 THEN 1 ELSE sbsLast.n,
                      first |-> IF sbsLast.n = 0 THEN now ELSE sbsLast.first,
                      at |-> now, enhanced |-> e.allowed, user |-> u.allowed,
                      admits |-> IF u.allowed THEN Append(sbsLast.admits, now)
                                 ELSE sbsLast.admits]
       /\ UNCHANGED <<now, rlVars, keyVars, jobVars, pipeVars, batchVars>>

NextSBS == Tick(MaxTime) \/ SideBySide

SpecSBS == InitSBS /\ [][NextSBS]_vars

\* C8: on the same sequence of request times the two limiters make the same
\* admit/reject decision on every request.
C8_SameDecision == sbsLast.enhanced = sbsLast.user

\* C8 amended: the two decisions agree on every request made less than one
\* window after the first request of the key.
C8_SameDecisionFirstWindow ==
    (sbsLast.n = 1 /\ sbsLast.at < sbsLast.first + RLWindow) =>
        sbsLast.enhanced = sbsLast.user

\* C8 witness: both reject a request in the first window
C8_Witness ==
    /\ sbsLast.n = 1
    /\ sbsLast.at < sbsLast.first + RLWindow
    /\ sbsLast.at > sbsLast.first
    /\ ~sbsLast.enhanced /\ ~sbsLast.user

\* the admitted requests of the user that are less than one window old at t
AdmittedWithin(t) ==
    {i \in DOMAIN sbsLast.admits : t - sbsLast.admits[i] < RLWindow}

\* C32: a request of the user is rejected exactly when threshold admitted
\* requests of that user are less than one window old; a rejected request is
\* not recorded (the stored log is the admitted requests less than one window
\* old, and it never holds more than threshold timestamps); and no span of
\* one window holds more than threshold admitted requests.
C32_UserLimit ==
    [][ now' = now =>
          /\ sbsLast'.user <=> Cardinality(AdmittedWithin(now)) < RLThreshold
          /\ ~sbsLast'.user => sbsLast'.admits = sbsLast.admits /\ Len(sbsLog') <= Len(sbsLog)
          /\ sbsLog' = Recent(sbsLast'.admits, now, RLWindow)
          /\ Len(sbsLog') <= RLThreshold
          /\ \A t \in 0..MaxTime :
                Cardinality({i \in DOMAIN sbsLast'.admits :
                               /\ t <= sbsLast'.admits[i]
                               /\ sbsLast'.admits[i] < t + RLWindow}) <= RLThreshold ]_vars

\* C32 witness: the user's window is full, a request was rejected, and an
\* earlier admitted request has already left the log
C32_Witness ==
    /\ ~sbsLast.user
    /\ Len(sbsLog) = RLThreshold
    /\ Len(sbsLast.admits) > RLThreshold

(***************************************************************************)
(* Spec: the job endpoints and the background task of each job.            *)
(* A handler or a task step starts only when no task is between two        *)
(* awaits (running = 0): everything runs on one event loop.                *)
(***************************************************************************)
Init ==
    /\ now = 0
    /\ IdleRL /\ IdleKey /\ IdleSBS /\ IdlePipe /\ IdleBatch
    /\ user_requests = <<>>
    /\ job_storage = [j \in JobIds |-> NoJob]
    /\ task = [j \in JobIds |-> NoTask]
    /\ running = 0
    /\ tempFiles = {}
    /\ artifacts = {}
    /\ neural_planter \in {None, "planter", "no_method"}
    /\ nextJob = 1
    /\ resp = NoResp
    /\ submitter = [j \in JobIds |-> None]

NotJobVars == <<rlVars, keyVars, sbsVars, pipeVars, batchVars>>

\* POST /api/v1/generate-planter with its dependencies get_current_user and
\* check_rate_limit; image is `file.content_type.startswith("image/")`
GeneratePlanterBy(token, image) ==
    LET r == RateLimitUser(user_requests, now, USER_LIMIT, Seconds(USER_WINDOW))
        job_id == Uuid4(nextJob)
    IN /\ running = 0
       /\ (ValidToken(token) /\ r.allowed /\ image) => nextJob <= MaxJobs
       /\ IF ~ValidToken(token)
          THEN /\ resp' = Response("generate", 0, 401)
               /\ UNCHANGED <<user_requests, job_storage, task, nextJob>>
          ELSE IF ~r.allowed
          THEN /\ user_requests' = r.log
               /\ resp' = Response("generate", 0, 429)
               /\ UNCHANGED <<job_storage, task, nextJob>>
          ELSE IF ~image
          THEN /\ user_requests' = r.log
               /\ resp' = Response("generate", 0, 400)
               /\ UNCHANGED <<job_storage, task, nextJob>>
          ELSE /\ user_requests' = r.log
               /\ job_storage' = [job_storage EXCEPT ![job_id] = NewJob(Strftime(now))]
               /\ task' = [task EXCEPT ![job_id] = [NoTask EXCEPT !.pc = "scheduled"]]
               /\ nextJob' = nextJob + 1
               /\ resp' = Response("generate", job_id, 200)
       /\ submitter' = IF ValidToken(token) /\ r.allowed /\ image
                       THEN [submitter EXCEPT ![job_id] = token] ELSE submitter
       /\ UNCHANGED <<now, running, tempFiles, artifacts, neural_planter, NotJobVars>>

GeneratePlanter == \E token \in Tokens, image \in BOOLEAN : GeneratePlanterBy(token, image)

RaiseEscapes(j, cause) == [task EXCEPT ![j].pc = "crashed", ![j].exc = cause]

\* the task raises: control goes to `except Exception as e` of line 691; the
\* cause is the exception's type (a file operation raises OSError, reading
\* a closed upload ValueError)
Raise(j, cause) == [task EXCEPT ![j].pc = "except", ![j].exc = cause]

\* lines 576-579: status = "processing", progress = 10.0
TaskBegin(j) ==
    /\ running = 0
    /\ task[j].pc = "scheduled"
    /\ running' = j
    /\ IF job_storage[j].has
       THEN /\ job_storage' = [job_storage EXCEPT ![j].status = "processing",
                                                  ![j].progress = 10]
            /\ task' = [task EXCEPT ![j].pc = "mktemp"]
       ELSE /\ task' = Raise(j, "KeyError")
            /\ UNCHANGED job_storage
    /\ UNCHANGED <<now, user_requests, tempFiles, artifacts, neural_planter, nextJob,
                   resp, submitter, NotJobVars>>

\* line 582: NamedTemporaryFile(delete=False) creates the file, or raises;
\* then line 583 awaits file.read()
TaskMkTemp(j) ==
    /\ running = j
    /\ task[j].pc = "mktemp"
    /\ \E ok \in BOOLEAN :
          IF ok
          THEN /\ tempFiles' = tempFiles \cup {j}
               /\ task' = [task EXCEPT ![j].pc = "reading"]
               /\ running' = 0
          ELSE /\ task' = Raise(j, "OSError")
               /\ UNCHANGED <<tempFiles, running>>
    /\ UNCHANGED <<now, user_requests, job_storage, artifacts, neural_planter, nextJob,
                   resp, submitter, NotJobVars>>

\* line 583: file.read() returns or raises; leaving the `with` block closes
\* the temporary file and keeps it on disk
TaskRead(j) ==
    /\ running = 0
    /\ task[j].pc = "reading"
    /\ running' = j
    /\ \E ok \in BOOLEAN :
          task' = IF ok THEN [task EXCEPT ![j].pc = "write_input"] ELSE Raise(j, "ValueError")
    /\ UNCHANGED <<now, user_requests, job_storage, tempFiles, artifacts, neural_planter,
                   nextJob, resp, submitter, NotJobVars>>

\* lines 584-587: temp_file.write(content), then progress = 20.0
TaskWriteInput(j) ==
    /\ running = j
    /\ task[j].pc = "write_input"
    /\ \E ok \in BOOLEAN :
          IF ok /\ job_storage[j].has
          THEN /\ job_storage' = [job_storage EXCEPT ![j].progress = 20]
               /\ task' = [task EXCEPT ![j].pc = "makedirs"]
          ELSE /\ task' = Raise(j, IF ok THEN "KeyError" ELSE "OSError")
               /\ UNCHANGED job_storage
    /\ UNCHANGED <<now, user_requests, running, tempFiles, artifacts, neural_planter,
                   nextJob, resp, submitter, NotJobVars>>

\* lines 594-595 and 649-650: os.makedirs("temp_outputs", exist_ok=True)
TaskMakeDirs(j) ==
    /\ running = j
    /\ task[j].pc = "makedirs"
    /\ \E ok \in BOOLEAN :
          task' = IF ok THEN [task EXCEPT ![j].pc = "generate"] ELSE Raise(j, "OSError")
    /\ UNCHANGED <<now, user_requests, job_storage, running, tempFiles, artifacts,
                   neural_planter, nextJob, resp, submitter, NotJobVars>>

\* lines 599-641, the neural path.  The planter's method (generate_dog_planter
\* or generate_planter, called alike: "planter") writes output_path and
\* returns a result (a dict, or no dict at all), or raises; a planter with
\* neither method gets the demo STL.  An exception of the inner try is
\* answered by writing the fallback STL, which can raise in its turn.  Then
\* progress = 90.0.
TaskNeural(j) ==
    /\ running = j
    /\ task[j].pc = "generate"
    /\ neural_planter # None
    /\ \E outcome \in {"dict", "no_dict", "raises"}, fallback_ok \in BOOLEAN :
          LET no_method == neural_planter = "no_method"
              \* the inner try ended without an exception
              clean == outcome # "raises"
              res == IF ~clean THEN "fallback_75"
                     ELSE IF no_method THEN "demo_85" ELSE outcome
          IN /\ no_method => outcome # "no_dict"
             /\ clean => fallback_ok
             /\ IF clean \/ fallback_ok
                THEN /\ artifacts' = artifacts \cup {j}
                     /\ IF job_storage[j].has
                        THEN /\ job_storage' = [job_storage EXCEPT ![j].progress = 90]
                             /\ task' = [task EXCEPT ![j].pc = "complete", ![j].result = res]
                        ELSE /\ task' = Raise(j, "KeyError")
                             /\ UNCHANGED job_storage
                ELSE /\ task' = Raise(j, "OSError")
                     /\ UNCHANGED <<job_storage, artifacts>>
    /\ UNCHANGED <<now, user_requests, running, tempFiles, neural_planter, nextJob,
                   resp, submitter, NotJobVars>>

\* lines 646-667, demo mode: the placeholder STL is written
TaskDemo(j) ==
    /\ running = j
    /\ task[j].pc = "generate"
    /\ neural_planter = None
    /\ \E ok \in BOOLEAN :
          IF ok
          THEN /\ artifacts' = artifacts \cup {j}
               /\ task' = [task EXCEPT ![j].pc = "complete", ![j].result = "demo_85"]
          ELSE /\ task' = Raise(j, "OSError")
               /\ UNCHANGED artifacts
    /\ UNCHANGED <<now, user_requests, job_storage, running, tempFiles, neural_planter,
                   nextJob, resp, submitter, NotJobVars>>

\* result.get("quality_score", 0.0); the planter's dict carries a score
QualityScore(result) ==
    CASE result = "dict" -> 90
      [] result = "demo_85" -> 85
      [] result = "fallback_75" -> 75

\* processing_time: 2.0 in demo mode, the time the neural call took otherwise
\* (no time passes inside one step of the model)
ProcessingTime == IF neural_planter = None THEN 2 ELSE 0

\* output_path
OutputPath == IF neural_planter = None THEN "demo_planter.stl" ELSE "planter.stl"

\* lines 669-684: the dict of the update is built first (result.get raises on
\* a result that is no dict), then applied
TaskComplete(j) ==
    /\ running = j
    /\ task[j].pc = "complete"
    /\ IF task[j].result = "no_dict"
       THEN /\ task' = Raise(j, "AttributeError")
            /\ UNCHANGED job_storage
       ELSE IF ~job_storage[j].has
       THEN /\ task' = Raise(j, "KeyError")
            /\ UNCHANGED job_storage
       ELSE /\ job_storage' = [job_storage EXCEPT ![j] =
                  CompletedUpdate(@, now, OutputPath, ProcessingTime,
                                  QualityScore(task[j].result), "demo_user")]
            /\ task' = [task EXCEPT ![j].pc = "cleanup"]
    /\ UNCHANGED <<now, user_requests, running, tempFiles, artifacts, neural_planter,
                   nextJob, resp, submitter, NotJobVars>>

\* line 689: os.unlink(temp_input_path)
TaskCleanup(j) ==
    /\ running = j
    /\ task[j].pc = "cleanup"
    /\ \E ok \in BOOLEAN :
          IF ok
          THEN /\ tempFiles' = tempFiles \ {j}
               /\ task' = [task EXCEPT ![j].pc = "done"]
               /\ running' = 0
          ELSE /\ task' = Raise(j, "OSError")
               /\ UNCHANGED <<tempFiles, running>>
    /\ UNCHANGED <<now, user_requests, job_storage, artifacts, neural_planter, nextJob,
                   resp, submitter, NotJobVars>>

\* lines 691-697: the handler; job_storage[job_id] of a deleted job raises
\* KeyError out of the task
TaskExcept(j) ==
    /\ running = j
    /\ task[j].pc = "except"
    /\ running' = 0
    /\ IF job_storage[j].has
       THEN /\ job_storage' = [job_storage EXCEPT ![j] = FailedUpdate(@, now, task[j].exc)]
            /\ task' = [task EXCEPT ![j].pc = "done"]
       ELSE /\ task' = [task EXCEPT ![j].pc = "crashed"]
            /\ UNCHANGED job_storage
    /\ UNCHANGED <<now, user_requests, tempFiles, artifacts, neural_planter, nextJob,
                   resp, submitter, NotJobVars>>

\* GET /api/v1/status/{job_id}: 200 carries the job's status, processing
\* time, quality score and metadata
GetGenerationStatusBy(token, j) ==
    /\ running = 0
    /\ resp' = IF ~ValidToken(token)
               THEN Response("status", j, 401)
               ELSE IF ~job_storage[j].has
               THEN Response("status", j, 404)
               ELSE [result |-> StatusResult(job_storage[j]), jobs |-> <<>>,
                     op |-> "status", job |-> j, code |-> 200]
    /\ UNCHANGED <<now, user_requests, job_storage, task, running, tempFiles,
                   artifacts, neural_planter, nextJob, submitter, NotJobVars>>

GetGenerationStatus == \E token \in Tokens, j \in JobIds : GetGenerationStatusBy(token, j)

DownloadCodeByPath(rec, exists) ==
    IF ~rec.has THEN 404
    ELSE IF rec.stl_file_path = None THEN 400
    ELSE IF ~exists THEN 404
    ELSE 200

\* lines 728-744: 404 for an id that is not in job_storage, 400 for a job
\* that is not completed, 404 when the record has no path or the file does
\* not exist, the file otherwise
DownloadCode(rec, exists) ==
    IF ~rec.has THEN 404
    ELSE IF rec.status # "completed" THEN 400
    ELSE IF rec.stl_file_path = None \/ ~exists THEN 404
    ELSE 200

\* GET /api/v1/download/{job_id}/stl: 200 carries the file
DownloadStlBy(token, j) ==
    /\ running = 0
    /\ resp' = Response("download", j,
                        IF ~ValidToken(token) THEN 401
                        ELSE DownloadCode(job_storage[j], j \in artifacts))
    /\ UNCHANGED <<now, user_requests, job_storage, task, running, tempFiles,
                   artifacts, neural_planter, nextJob, submitter, NotJobVars>>

DownloadStl == \E token \in Tokens, j \in JobIds : DownloadStlBy(token, j)

\* lines 753-755: the jobs whose metadata carries user_id, in the order of
\* the dict (the order the jobs were created in)
RECURSIVE UserJobs(_, _)
UserJobs(user_id, j) ==
    IF j > MaxJobs THEN <<>>
    ELSE (IF job_storage[j].has /\ job_storage[j].metadata_user_id = user_id
          THEN <<j>> ELSE <<>>) \o UserJobs(user_id, j + 1)

\* line 764: sorted(user_jobs, key=created_at, reverse=True); the sort is
\* stable, jobs of the same created_at keep their order
RECURSIVE SortedByCreatedAtDesc(_)
SortedByCreatedAtDesc(ids) ==
    IF ids = <<>> THEN <<>>
    ELSE LET latest(i) == \A k \in 1..Len(ids) :
                              job_storage[ids[k]].created_at <= job_storage[ids[i]].created_at
             first == CHOOSE i \in 1..Len(ids) :
                         latest(i) /\ \A k \in 1..(i - 1) : ~latest(k)
         IN <<ids[first]>> \o
            SortedByCreatedAtDesc(SubSeq(ids, 1, first - 1) \o SubSeq(ids, first + 1, Len(ids)))

\* GET /api/v1/jobs
ListUserJobsBy(token) ==
    /\ running = 0
    /\ resp' = IF ~ValidToken(token)
               THEN Response("list", 0, 401)
               ELSE [result |-> NoResult,
                     jobs |-> SortedByCreatedAtDesc(UserJobs(CurrentUser(token), 1)),
                     op |-> "list", job |-> 0, code |-> 200]
    /\ UNCHANGED <<now, user_requests, job_storage, task, running, tempFiles,
                   artifacts, neural_planter, nextJob, submitter, NotJobVars>>

ListUserJobs == \E token \in Tokens : ListUserJobsBy(token)

FilesAfterDeleteKept(rec, j, files) == files
\* lines 781-783: the job's STL file is unlinked when the record names one
\* and it exists
FilesAfterDelete(rec, j, files) ==
    IF rec.stl_file_path # None THEN files \ {j} ELSE files

RegistryAfterDeleteUnchecked(storage, j, code) == [storage EXCEPT ![j] = NoJob]

\* lines 770-786: `del job_storage[job_id]` is reached only past the two
\* checks that raise 404 and 403
RegistryAfterDelete(storage, j, code) ==
    IF code = 200 THEN [storage EXCEPT ![j] = NoJob] ELSE storage

\* lines 770-778: the answer of delete_job
DeleteCode(token, rec) ==
    IF ~ValidToken(token) THEN 401
    ELSE IF ~rec.has THEN 404
    ELSE IF DeleteDenied(rec, CurrentUser(token)) THEN 403
    ELSE 200

\* DELETE /api/v1/jobs/{job_id}
DeleteJobBy(token, j) ==
    /\ running = 0
    /\ LET code == DeleteCode(token, job_storage[j])
       IN /\ resp' = Response("delete", j, code)
          /\ job_storage' = RegistryAfterDelete(job_storage, j, code)
          /\ artifacts' = IF code = 200
                          THEN FilesAfterDelete(job_storage[j], j, artifacts)
                          ELSE artifacts
          /\ submitter' = IF code = 200 THEN [submitter EXCEPT ![j] = None]
                          ELSE submitter
    /\ UNCHANGED <<now, user_requests, task, running, tempFiles, neural_planter,
                   nextJob, NotJobVars>>

DeleteJob == \E token \in Tokens, j \in JobIds : DeleteJobBy(token, j)

\* one step of the background task of job j
TaskStepOf(j) ==
    \/ TaskBegin(j)
    \/ TaskMkTemp(j)
    \/ TaskRead(j)
    \/ TaskWriteInput(j)
    \/ TaskMakeDirs(j)
    \/ TaskNeural(j)
    \/ TaskDemo(j)
    \/ TaskComplete(j)
    \/ TaskCleanup(j)
    \/ TaskExcept(j)

TaskStep == \E j \in JobIds : TaskStepOf(j)

Next ==
    \/ Tick(JobMaxTime)
    \/ GeneratePlanter
    \/ TaskStep
    \/ GetGenerationStatus
    \/ DownloadStl
    \/ ListUserJobs
    \/ DeleteJob

Spec == Init /\ [][Next]_vars

(***************************************************************************)
(* Claims about the jobs (Spec)                                            *)
(***************************************************************************)
Terminal == {"completed", "failed"}

\* C1: every change of a job's status is pending->processing,
\* processing->completed or processing->failed; a job that is completed or
\* failed never changes status again, also when the cleanup after the terminal
\* write raises.
C1_StatusForwardOnly ==
    [][ \A j \in JobIds :
          (job_storage[j].has /\ job_storage'[j].has
             /\ job_storage'[j].status # job_storage[j].status) =>
          <<job_storage[j].status, job_storage'[j].status>> \in
             { <<"pending", "processing">>, <<"processing", "completed">>,
               <<"processing", "failed">> } ]_vars

C4_TempFileReleased ==
    \A j \in JobIds :
        (task[j].pc = "done" /\ job_storage[j].has
           /\ job_storage[j].status \in Terminal) => j \notin tempFiles

\* C14: a delete of a job of the registry by the requester who submitted it
\* succeeds and removes the job, whatever the job's status; a delete by any
\* other authenticated requester is answered 403 and leaves the job as it is.
C14_OwnerDeletes ==
    [][ \A token \in Tokens, j \in JobIds :
          (DeleteJobBy(token, j) /\ ValidToken(token) /\ job_storage[j].has) =>
              IF token = submitter[j]
              THEN resp'.code = 200 /\ ~job_storage'[j].has
              ELSE resp'.code = 403 /\ job_storage'[j] = job_storage[j] ]_vars

\* C15: a delete answered 200 leaves the job absent from the registry and
\* its artifact file removed, in the same step; no job absent from the
\* registry ever has an artifact file; a status query or a download for an
\* absent job is answered 404.
C15_DeleteReleases ==
    [][ /\ \A token \in Tokens, j \in JobIds :
              (DeleteJobBy(token, j) /\ resp'.code = 200) =>
                  ~job_storage'[j].has /\ j \notin artifacts'
        /\ \A j \in JobIds : ~job_storage'[j].has => j \notin artifacts'
        /\ \A token \in Tokens, j \in JobIds :
              ((GetGenerationStatusBy(token, j) \/ DownloadStlBy(token, j))
                  /\ ValidToken(token) /\ ~job_storage[j].has) => resp'.code = 404 ]_vars

\* C15 witness: a job that was deleted (its id was handed out, its record is
\* gone) has no artifact file, and a status query for it got 404
C15_Witness ==
    /\ resp.op = "status" /\ resp.code = 404
    /\ resp.job < nextJob
    /\ ~job_storage[resp.job].has
    /\ resp.job \notin artifacts

\* C16: a status query or a download for a job of the registry by an
\* authenticated requester other than the one who submitted the job is
\* answered 403 or 404, never with the job's data.
C16_ReadsOwnerOnly ==
    [][ \A token \in Tokens, j \in JobIds :
          ((GetGenerationStatusBy(token, j) \/ DownloadStlBy(token, j))
              /\ ValidToken(token) /\ job_storage[j].has /\ token # submitter[j]) =>
                  resp'.code \in {403, 404} ]_vars

\* C17: the list answered to an authenticated requester holds exactly the
\* jobs of the registry that this requester submitted, whatever their
\* status, each once, the later created first.
C17_ListByOwner ==
    [][ \A token \in Tokens :
          (ListUserJobsBy(token) /\ ValidToken(token)) =>
              LET jobs == resp'.jobs
              IN /\ {jobs[i] : i \in 1..Len(jobs)} =
                       {j \in JobIds : job_storage[j].has /\ submitter[j] = token}
                 /\ \A i \in 1..Len(jobs), k \in 1..Len(jobs) :
                       i < k => /\ jobs[i] # jobs[k]
                                /\ job_storage[jobs[i]].created_at
                                      >= job_storage[jobs[k]].created_at ]_vars

\* C18: for every job of the registry completed_at is set exactly when the
\* status is completed or failed; it is written by the step that makes the
\* status terminal and keeps its value from then on.
C18_CompletedAtIffTerminal ==
    [][ \A j \in JobIds :
          /\ job_storage'[j].has =>
                (job_storage'[j].completed_at # -1 <=> job_storage'[j].status \in Terminal)
          /\ (job_storage[j].has /\ job_storage'[j].has
                /\ job_storage[j].status \in Terminal) =>
                job_storage'[j].completed_at = job_storage[j].completed_at ]_vars

\* C19: for every job of the registry the result payload (artifact path,
\* processing time, quality score, metadata) is present, all of it, when the
\* status is completed, and absent, all of it, in every other status.
C19_ResultIffCompleted ==
    \A j \in JobIds :
        LET rec == job_storage[j]
        IN rec.has =>
              IF rec.status = "completed"
              THEN /\ rec.stl_file_path # None /\ rec.processing_time # -1
                   /\ rec.quality_score # -1 /\ rec.metadata_user_id # None
              ELSE /\ rec.stl_file_path = None /\ rec.processing_time = -1
                   /\ rec.quality_score = -1 /\ rec.metadata_user_id = None

\* C20: for every job of the registry the error field is present exactly
\* when the status is failed.
C20_ErrorIffFailed ==
    \A j \in JobIds :
        job_storage[j].has =>
            (job_storage[j].error # None <=> job_storage[j].status = "failed")

\* C20 witness: the registry holds a failed job with its error and a
\* completed job without one
C20_Witness ==
    \E j \in JobIds, o \in JobIds :
        /\ job_storage[j].has /\ job_storage[j].status = "failed"
        /\ job_storage[j].error # None
        /\ job_storage[o].has /\ job_storage[o].status = "completed"
        /\ job_storage[o].error = None

\* C21: a job enters the registry with progress 0; its progress is always
\* within 0..100 and no step lowers it, on the neural path, the demo path and
\* the failure paths; a completed job has progress 100.
C21_ProgressMonotone ==
    [][ \A j \in JobIds :
          /\ (~job_storage[j].has /\ job_storage'[j].has) => job_storage'[j].progress = 0
          /\ job_storage'[j].has => job_storage'[j].progress \in 0..100
          /\ (job_storage[j].has /\ job_storage'[j].has) =>
                job_storage'[j].progress >= job_storage[j].progress
          /\ (job_storage'[j].has /\ job_storage'[j].status = "completed") =>
                job_storage'[j].progress = 100 ]_vars

\* C21 witness: on the neural path one job has failed after its progress
\* reached 90, another one is completed
C21_Witness ==
    \E j \in JobIds, o \in JobIds :
        /\ neural_planter # None
        /\ job_storage[j].has /\ job_storage[j].status = "failed"
        /\ job_storage[j].progress = 90
        /\ job_storage[o].has /\ job_storage[o].status = "completed"
        /\ job_storage[o].progress = 100

\* C27: a background task is scheduled for a job id only by the creation of
\* that job, under an id that has neither a record nor a task yet; a task
\* that has begun is never scheduled or begun again; and a creation leaves
\* the record and the task of every other job as they are.
C27_OneRunPerJob ==
    [][ \A j \in JobIds :
          /\ (~job_storage[j].has /\ job_storage'[j].has) =>
                /\ task[j] = NoTask /\ task'[j].pc = "scheduled"
                /\ j >= nextJob /\ nextJob' > j
                /\ \A o \in JobIds \ {j} :
                      job_storage'[o] = job_storage[o] /\ task'[o] = task[o]
          /\ (task'[j].pc = "scheduled" /\ task[j].pc # "scheduled") =>
                ~job_storage[j].has /\ job_storage'[j].has
          /\ (job_storage[j].has /\ job_storage'[j].has) =>
                job_storage'[j].created_at = job_storage[j].created_at
          /\ (task[j].pc = "scheduled" /\ task'[j].pc # "scheduled") =>
                running' = j /\ task'[j].pc \in {"mktemp", "except"}
          /\ running' = j => task'[j].pc \notin {"none", "scheduled", "done", "crashed"} ]_vars

\* C27 witness: a job is created, its task scheduled, while the task of an
\* earlier job is between two of its steps
C27_Witness ==
    \E j \in JobIds, o \in JobIds :
        /\ o < j
        /\ job_storage[o].has /\ job_storage[o].status = "processing"
        /\ task[o].pc = "reading"
        /\ job_storage[j].has /\ job_storage[j].status = "pending"
        /\ task[j].pc = "scheduled"
        /\ resp.op = "generate" /\ resp.job = j

\* C28: a status query answered 200, wherever the tasks of the jobs stand,
\* reads a whole record: a completed one has progress 100, completed_at and
\* the artifact path, a failed one has error and completed_at; and its answer
\* is built from the record as the last update left it.
C28_NoTornRead ==
    [][ \A token \in Tokens, j \in JobIds :
          (GetGenerationStatusBy(token, j) /\ resp'.code = 200) =>
              LET rec == job_storage[j]
              IN /\ rec.status = "completed" =>
                       /\ rec.progress = 100 /\ rec.completed_at # -1
                       /\ rec.stl_file_path # None
                       /\ resp'.result.stl_file_url
                 /\ rec.status = "failed" =>
                       rec.error # None /\ rec.completed_at # -1
                 /\ resp'.result.status = rec.status
                 /\ resp'.result.processing_time = rec.processing_time
                 /\ resp'.result.quality_score = rec.quality_score
                 /\ resp'.result.metadata_user_id = rec.metadata_user_id ]_vars

\* C28 witness: a status query has read a completed job while the task of
\* another job is suspended in its await
C28_Witness ==
    \E o \in JobIds :
        /\ resp.op = "status" /\ resp.code = 200 /\ resp.job # o
        /\ resp.result.status = "completed" /\ resp.result.stl_file_url
        /\ job_storage[resp.job].has /\ job_storage[resp.job].status = "completed"
        /\ task[o].pc = "reading"

\* C29: a download by an authenticated requester is answered 404 for an id
\* that is not in the registry and 400 for a job that is pending, processing
\* or failed; it is answered with the file only for a completed job.
C29_DownloadOnlyCompleted ==
    [][ \A token \in Tokens, j \in JobIds :
          (DownloadStlBy(token, j) /\ ValidToken(token)) =>
              /\ ~job_storage[j].has => resp'.code = 404
              /\ (job_storage[j].has
                    /\ job_storage[j].status \in {"pending", "processing", "failed"}) =>
                    resp'.code = 400
              /\ resp'.code = 200 =>
                    /\ job_storage[j].has /\ job_storage[j].status = "completed"
                    /\ j \in artifacts ]_vars

\* C29 witness: a download of a failed job whose artifact file is on disk
\* has been answered 400
C29_Witness ==
    /\ resp.op = "download" /\ resp.code = 400
    /\ job_storage[resp.job].has /\ job_storage[resp.job].status = "failed"
    /\ resp.job \in artifacts

\* C31: a submission without a valid token, one made when the user's log
\* holds USER_LIMIT requests of the window, and one whose upload is no image
\* are answered 401, 429 and 400; none of them changes the registry, hands
\* out a job id or schedules a task.
C31_RejectedBeforeCreation ==
    [][ \A token \in Tokens, image \in BOOLEAN :
          LET limited == Len(Recent(user_requests, now, Seconds(USER_WINDOW))) >= USER_LIMIT
          IN (GeneratePlanterBy(token, image)
                /\ (~ValidToken(token) \/ limited \/ ~image)) =>
                 /\ resp'.code = (IF ~ValidToken(token) THEN 401
                                  ELSE IF limited THEN 429 ELSE 400)
                 /\ job_storage' = job_storage
                 /\ task' = task
                 /\ nextJob' = nextJob ]_vars

\* C31 witness: a submission has been answered 429 while the registry holds
\* the one job created before it and no other task exists
C31_Witness ==
    /\ resp.op = "generate" /\ resp.code = 429
    /\ nextJob = 2 /\ job_storage[1].has
    /\ \A j \in JobIds \ {1} : ~job_storage[j].has /\ task[j] = NoTask

\* the background task of job j was scheduled and has not returned
TaskRunning(j) == task[j].pc \notin {"none", "done"}

\* C34: a job record is never removed from the registry while its
\* background task is still running: every write of the task, the one of the
\* failure handler included, finds the record (no write raises KeyError, and
\* no exception leaves the handler).
C34_RecordOutlivesTask ==
    \A j \in JobIds :
        /\ TaskRunning(j) => job_storage[j].has
        /\ task[j].exc # "KeyError"
        /\ task[j].pc # "crashed"

\* C34 witness: a delete of job 2 was refused while its task was waiting for
\* the upload (status processing), and job 1 was deleted after its task
\* had returned
C34_Witness ==
    /\ resp.op = "delete" /\ resp.job = 2 /\ resp.code = 403
    /\ task[2].pc = "reading" /\ job_storage[2].status = "processing"
    /\ task[1].pc = "done" /\ ~job_storage[1].has

\* C37: a delete answered 404 (unknown id) or 403 (not the owner) leaves the
\* registry and every file unchanged; a status query, a download and a job
\* listing never change the registry or a file.
C37_FailedDeleteAndReadsChangeNothing ==
    [][ \A token \in Tokens, j \in JobIds :
          ( \/ DeleteJobBy(token, j) /\ resp'.code \in {404, 403}
            \/ GetGenerationStatusBy(token, j)
            \/ DownloadStlBy(token, j)
            \/ ListUserJobsBy(token) ) =>
              /\ job_storage' = job_storage
              /\ artifacts' = artifacts
              /\ tempFiles' = tempFiles ]_vars

\* C37 witness: a delete of job 2, failed with its artifact written, was
\* refused with 403, and both records and both artifacts are there
C37_Witness ==
    /\ resp.op = "delete" /\ resp.job = 2 /\ resp.code = 403
    /\ job_storage[2].has /\ job_storage[2].status = "failed" /\ 2 \in artifacts
    /\ job_storage[1].has /\ job_storage[1].status = "completed" /\ 1 \in artifacts

(***************************************************************************)
(* The enhanced generation endpoint, api_server.py:791-1317: the request   *)
(* handler, the production pipeline with its fallbacks, and the poller.    *)
(* One request is served at a time; each await of the code ends a step.    *)
(***************************************************************************)

\* the options form field: absent or empty, a valid object, text that is no
\* JSON, JSON that is no object, an object of unknown keys only, an object
\* with a value of the wrong type for a known key
OptKinds == {"empty", "valid", "bad_json", "not_object", "unknown_keys", "wrong_type"}
UrlKinds == {"ok", "bad", "too_large"}
BreedHints == {None, "Labrador"}

\* lines 806-812: json.loads raises JSONDecodeError, ** of a non-mapping
\* raises TypeError, both answered with the defaults; the model ignores
\* unknown keys; its ValidationError is neither of the two and leaves the try
ParseOptions(optKind) ==
    CASE optKind = "empty"        -> "defaults"
      [] optKind = "valid"        -> "custom"
      [] optKind = "bad_json"     -> "defaults"
      [] optKind = "not_object"   -> "defaults"
      [] optKind = "unknown_keys" -> "defaults"
      [] optKind = "wrong_type"   -> "ValidationError"

\* the request has been answered: an HTTPException (lines 863-874) or the
\* result (line 861)
Answered(p, code, error) ==
    [p EXCEPT !.pc = "done", !.code = code, !.success = (code = 200), !.error = error]

ProductionExceptSwallowed(p, cause) == [p EXCEPT !.pc = "assemble"]
\* lines 956-958 and 865-874: an exception of the production pipeline is
\* wrapped and leaves the endpoint as a 500
ProductionExcept(p, cause) == Answered(p, 500, cause)

\* the provider's job behind one prediction: the status it reports from
\* attempt `at` on ("never": it stays unfinished), and its output
ProviderJobs(stage, outputs) ==
    {[NoPoll EXCEPT !.stage = stage, !.kind = "succeeded", !.at = a, !.output = o] :
        a \in 1..(max_attempts + 1), o \in outputs}
    \cup {[NoPoll EXCEPT !.stage = stage, !.kind = k, !.at = a] :
        k \in {"failed", "http_error"}, a \in 1..(max_attempts + 1)}
    \cup {[NoPoll EXCEPT !.stage = stage, !.kind = "never"]}

\* lines 1200-1207: what the n-th status query gets
ProviderStatus(job, n) ==
    IF job.kind = "never" \/ n < job.at THEN "processing" ELSE job.kind

RangeHasNextOneMore(i, n) == i <= n
\* line 1199: for i in range(max_attempts)
RangeHasNext(i, n) == i < n

PollTurnOnlySucceeded(job) ==
    IF RangeHasNext(job.queries, max_attempts)
    THEN LET n == job.queries + 1
             status == ProviderStatus(job, n)
         IN [job EXCEPT !.queries = n,
                        !.outcome = IF status \in {"processing", "failed"} THEN None
                                    ELSE status]
    ELSE [job EXCEPT !.outcome = "timeout"]

PollTurnRetryOnError(job) ==
    IF RangeHasNext(job.queries, max_attempts)
    THEN LET n == job.queries + 1
             status == ProviderStatus(job, n)
         IN [job EXCEPT !.queries = n,
                        !.outcome = IF status \in {"processing", "http_error"} THEN None
                                    ELSE status]
    ELSE [job EXCEPT !.outcome = "timeout"]
\* lines 1197-1215, one turn of the loop of poll_replicate_job, or the raise
\* after the loop
PollTurn(job) ==
    IF RangeHasNext(job.queries, max_attempts)
    THEN LET n == job.queries + 1
             status == ProviderStatus(job, n)
         IN [job EXCEPT !.queries = n,
                        !.outcome = IF status = "processing" THEN None ELSE status]
    ELSE [job EXCEPT !.outcome = "timeout"]

ServiceExceptRetry(p, cause) ==
    [p EXCEPT !.pc = IF Len(p.stages) < 6 THEN "enhance_submit" ELSE "procedural",
              !.convert = cause]

ServiceExceptReraise(p, cause) == ProductionExcept([p EXCEPT !.convert = cause], cause)
\* lines 1072-1075: any exception of the two remote steps is answered with
\* the procedural model
ServiceExcept(p, cause) == [p EXCEPT !.pc = "procedural", !.convert = cause]

InitPipe ==
    /\ now = 0
    /\ IdleRL /\ IdleKey /\ IdleSBS /\ IdleJobs /\ IdleBatch
    /\ PRODUCTION_MODE \in BOOLEAN
    /\ REPLICATE_API_TOKEN \in BOOLEAN
    /\ pipe = NoPipe
    /\ poll = NoPoll
    /\ procedural_runs = {}

NotPipeVars == <<now, rlLast, admitted, keyVars, sbsVars, jobVars, batchVars,
                 PRODUCTION_MODE, REPLICATE_API_TOKEN>>

\* lines 791-856 with the dependency check_rate_limit_enhanced (354-383):
\* the request is limited, its options parsed, its image URL validated, and
\* the production or the development generation begins
GenerateEnhanced3dSimple ==
    /\ pipe.pc \in {"idle", "done"}
    /\ \E client \in {"a"}, optKind \in OptKinds, url \in UrlKinds, breed \in BreedHints :
          LET client_id == ClientId(None, None, client)
              r == RateLimitEnhanced(request_log, client_id, now,
                                     MAX_REQUESTS_PER_HOUR, Seconds(hour_ms))
              req == [NoPipe EXCEPT !.optKind = optKind, !.breed = breed]
              parsed == ParseOptions(optKind)
          IN /\ request_log' = r.log
             /\ poll' = NoPoll
             /\ pipe' = IF ~r.allowed THEN Answered(NoPipe, 429, "rate_limit")
                        ELSE IF parsed = "ValidationError"
                        THEN Answered(req, 500, "ValidationError")
                        ELSE IF url # "ok"
                        THEN Answered([req EXCEPT !.options = parsed], 400, url)
                        ELSE [req EXCEPT !.options = parsed,
                                         !.pc = IF PRODUCTION_MODE THEN "analyze"
                                                ELSE "development"]
    /\ UNCHANGED <<procedural_runs, NotPipeVars>>

\* lines 960-1048 and 858-861: the mock result
GenerateDevelopmentModelEnhanced ==
    /\ pipe.pc = "development"
    /\ pipe' = Answered([pipe EXCEPT !.development_mode = TRUE,
                                     !.analysis = "mock",
                                     !.analysis_breed = Or(pipe.breed, "Mixed Breed"),
                                     !.analysis_confidence = 85,
                                     !.model = "mock"], 200, None)
    /\ UNCHANGED <<request_log, poll, procedural_runs, NotPipeVars>>

\* what the analysis provider does with the request of lines 447-452: a 200
\* answer carrying an analysis, a 200 answer that is an object without the
\* keys, the connection failing, a non-200 answer, a 200 answer that is no
\* JSON, JSON that is no object, an object with a value of the wrong type
AnalyzeAnswers == {"analysis", "no_keys", "transport_error", "non_200", "not_json",
                   "not_object", "wrong_type"}

\* lines 454-475: the exception the answer raises inside the try, None when
\* it raises none (a non-200 answer skips the block of line 453)
AnalyzeRaises(answer) ==
    CASE answer = "transport_error" -> "ClientError"
      [] answer = "not_json"        -> "ContentTypeError"
      [] answer = "not_object"      -> "AttributeError"
      [] answer = "wrong_type"      -> "ValidationError"
      [] OTHER                      -> None

\* lines 480-498: the fallback analysis; confidence in percent, every other
\* field is a constant
DefaultAnalysis(user_breed) ==
    [breed |-> Or(user_breed, "Mixed Breed"),
     confidence |-> IF Truthy(user_breed) THEN 90 ELSE 70]

\* lines 455-475: the analysis built from a 200 answer
ProviderAnalysis(answer, user_breed) ==
    IF answer = "analysis" THEN [breed |-> "Poodle", confidence |-> 95]
    ELSE DefaultAnalysis(user_breed)

\* lines 479-498: the stage returns the fallback analysis
AnalyzeFallback(p) ==
    LET a == DefaultAnalysis(p.breed)
    IN [p EXCEPT !.pc = "service", !.stages = Append(@, "Analyze"),
                 !.analysis = "default", !.analysis_breed = a.breed,
                 !.analysis_confidence = a.confidence]

AnalyzeExceptReraise(p, cause) ==
    ProductionExcept([p EXCEPT !.stages = Append(@, "Analyze")], cause)
\* lines 476-477: the exception is logged, control goes on to line 479
AnalyzeExcept(p, cause) == AnalyzeFallback(p)

\* lines 430-498: the provider's analysis on a well-formed 200 answer, the
\* fallback analysis on anything else
AnalyzePetImageEnhanced ==
    /\ pipe.pc = "analyze"
    /\ \E answer \in AnalyzeAnswers :
          LET p == [pipe EXCEPT !.analyze_answer = answer]
              a == ProviderAnalysis(answer, pipe.breed)
          IN pipe' = IF AnalyzeRaises(answer) # None
                     THEN AnalyzeExcept(p, AnalyzeRaises(answer))
                     ELSE IF answer = "non_200"
                     THEN AnalyzeFallback(p)
                     ELSE [p EXCEPT !.pc = "service", !.stages = Append(@, "Analyze"),
                                    !.analysis = "provider", !.analysis_breed = a.breed,
                                    !.analysis_confidence = a.confidence]
    /\ UNCHANGED <<request_log, poll, procedural_runs, NotPipeVars>>

\* lines 1059-1063
ServiceEntryAlwaysRemote(token) == "enhance_submit"

\* lines 1059-1061: without a token the procedural generator is called at
\* once; with one, the two remote steps are tried
ServiceEntry(token) == IF ~token THEN "procedural" ELSE "enhance_submit"

GenerateWith3dServiceEnhanced ==
    /\ pipe.pc = "service"
    /\ pipe' = [pipe EXCEPT !.pc = ServiceEntry(REPLICATE_API_TOKEN)]
    /\ UNCHANGED <<request_log, poll, procedural_runs, NotPipeVars>>

EnhanceExceptReraise(p, cause) == ServiceExcept([p EXCEPT !.enhance = cause], cause)
\* lines 1134-1136: any exception of the stage is answered with image_url,
\* the original image
EnhanceExcept(p, cause) ==
    [p EXCEPT !.pc = "convert_submit", !.enhance = cause, !.image = "original"]

\* lines 1101-1127: the prediction is submitted; a transport error or a
\* non-200 answer raises
EnhanceSubmit ==
    /\ pipe.pc = "enhance_submit"
    /\ \/ \E job \in ProviderJobs("Enhance", {"url", "empty"}) :
             /\ poll' = job
             /\ pipe' = [pipe EXCEPT !.pc = "enhance_poll", !.stages = Append(@, "Enhance")]
       \/ /\ pipe' = EnhanceExcept([pipe EXCEPT !.stages = Append(@, "Enhance")],
                                   "submit_error")
          /\ UNCHANGED poll
    /\ UNCHANGED <<request_log, procedural_runs, NotPipeVars>>

\* line 1127: poll_replicate_job, one turn
EnhancePoll ==
    /\ pipe.pc = "enhance_poll"
    /\ poll' = PollTurn(poll)
    /\ pipe' = IF poll'.outcome # None
               THEN [pipe EXCEPT !.pc = "enhance_result"] ELSE pipe
    /\ UNCHANGED <<request_log, procedural_runs, NotPipeVars>>

\* lines 1127-1132: the output of a succeeded job; an exception of the
\* poller, and the exception of line 1132 on a failed job or an empty output
EnhanceResult ==
    /\ pipe.pc = "enhance_result"
    /\ pipe' = IF poll.outcome = "succeeded" /\ poll.output # "empty"
               THEN [pipe EXCEPT !.pc = "convert_submit", !.enhance = "ok",
                                 !.image = "enhanced"]
               ELSE EnhanceExcept(pipe, IF poll.outcome # "succeeded" THEN poll.outcome
                                        ELSE poll.output)
    /\ poll' = NoPoll
    /\ UNCHANGED <<request_log, procedural_runs, NotPipeVars>>

\* lines 1147-1175 and 1193-1195: the prediction is submitted, with the image
\* the Enhance stage returned as its input (line 1158); a transport
\* error or a non-200 answer is raised to generate_with_3d_service_enhanced
ConvertSubmit ==
    /\ pipe.pc = "convert_submit"
    /\ \/ \E job \in ProviderJobs("Convert3D",
                                  {"model_file", "no_model_file", "not_dict", "empty"}) :
             /\ poll' = job
             /\ pipe' = [pipe EXCEPT !.pc = "convert_poll", !.stages = Append(@, "Convert3D"),
                                     !.convert_input = pipe.image]
       \/ /\ pipe' = ServiceExcept([pipe EXCEPT !.stages = Append(@, "Convert3D"),
                                                 !.convert_input = pipe.image],
                                   "submit_error")
          /\ UNCHANGED poll
    /\ UNCHANGED <<request_log, procedural_runs, NotPipeVars>>

\* line 1175: poll_replicate_job, one turn
ConvertPoll ==
    /\ pipe.pc = "convert_poll"
    /\ poll' = PollTurn(poll)
    /\ pipe' = IF poll'.outcome # None
               THEN [pipe EXCEPT !.pc = "convert_result"] ELSE pipe
    /\ UNCHANGED <<request_log, procedural_runs, NotPipeVars>>

\* lines 1177-1195: the model of a succeeded job with an output (.get on an
\* output that is no dict raises; a dict without model_file is itself taken
\* as the model reference), an exception on everything else
ConvertResult ==
    /\ pipe.pc = "convert_result"
    /\ LET job == poll
       IN pipe' = IF job.outcome = "succeeded" /\ job.output \in {"model_file", "no_model_file"}
                  THEN [pipe EXCEPT !.pc = "optimize", !.convert = "ok",
                                    !.model = IF job.output = "model_file" THEN "real"
                                              ELSE "real_dict"]
                  ELSE ServiceExcept(pipe,
                          IF job.outcome # "succeeded" THEN job.outcome ELSE job.output)
    /\ poll' = NoPoll
    /\ UNCHANGED <<request_log, procedural_runs, NotPipeVars>>

\* line 1250: model_id = f"custom_{int(time.time())}_{uuid.uuid4().hex[:8]}"
ProceduralModelId(t, uuid8) == <<IntSeconds(t), uuid8>>

\* lines 1241-1268: the model_id is drawn, and the placeholder file is
\* written under it, or makedirs or open raise
GenerateProceduralModelEnhanced ==
    /\ pipe.pc = "procedural"
    /\ \E ok \in BOOLEAN, uuid8 \in 1..MaxUuid :
          LET model_id == ProceduralModelId(now, uuid8)
          IN /\ pipe' = IF ok
                        THEN [pipe EXCEPT !.pc = "optimize",
                                          !.stages = Append(@, "Procedural"),
                                          !.procedural = "written",
                                          !.model = "procedural", !.model_id = model_id]
                        ELSE ProductionExcept([pipe EXCEPT
                                                  !.stages = Append(@, "Procedural"),
                                                  !.procedural = "raised"], "OSError")
             /\ procedural_runs' = procedural_runs
                    \cup {[breed |-> pipe.breed, model_id |-> model_id]}
    /\ UNCHANGED <<request_log, poll, NotPipeVars>>

\* lines 1270-1300
OptimizeModelEnhanced ==
    /\ pipe.pc = "optimize"
    /\ pipe' = [pipe EXCEPT !.pc = "formats", !.stages = Append(@, "Optimize")]
    /\ UNCHANGED <<request_log, poll, procedural_runs, NotPipeVars>>

\* lines 1302-1317: .replace on the model reference, which raises when the
\* reference is a dict
GenerateAdditionalFormats ==
    /\ pipe.pc = "formats"
    /\ pipe' = IF pipe.model = "real_dict"
               THEN ProductionExcept([pipe EXCEPT !.stages = Append(@, "GenerateFormats")],
                                     "AttributeError")
               ELSE [pipe EXCEPT !.pc = "assemble", !.stages = Append(@, "GenerateFormats")]
    /\ UNCHANGED <<request_log, poll, procedural_runs, NotPipeVars>>

\* lines 898-954: the EnhancedGenerationResult of the production pipeline, by
\* the fields that depend on the run.  model_url is the model reference;
\* job_id is optimized_result.get('job_id'), a key optimize_model_enhanced
\* does not return; the message is the same text for every run.
Result(p) ==
    [success |-> TRUE, development_mode |-> FALSE,
     model_url |-> <<p.model, p.model_id>>,
     breed_analysis |-> p.analysis_breed, job_id |-> None,
     message |-> "Production mode: Ultra-high quality 3D model generated"]

\* lines 898-954 and 858-861: the result
Assemble ==
    /\ pipe.pc = "assemble"
    /\ pipe' = Answered(pipe, 200, None)
    /\ UNCHANGED <<request_log, poll, procedural_runs, NotPipeVars>>

NextPipe ==
    \/ GenerateEnhanced3dSimple
    \/ GenerateDevelopmentModelEnhanced
    \/ AnalyzePetImageEnhanced
    \/ GenerateWith3dServiceEnhanced
    \/ EnhanceSubmit
    \/ EnhancePoll
    \/ EnhanceResult
    \/ ConvertSubmit
    \/ ConvertPoll
    \/ ConvertResult
    \/ GenerateProceduralModelEnhanced
    \/ OptimizeModelEnhanced
    \/ GenerateAdditionalFormats
    \/ Assemble

SpecPipe == InitPipe /\ [][NextPipe]_vars

(***************************************************************************)
(* Claims on the production pipeline and the poller                        *)
(***************************************************************************)

\* C10: with the limit max_attempts, a poll never issues more than
\* max_attempts status queries; when the provider first reports 'succeeded'
\* on attempt k <= max_attempts, the poll is still running before the k-th
\* query and returns that result after exactly k queries; when the provider
\* reports nothing terminal within max_attempts attempts, the poll ends only
\* with the polling timeout, after exactly max_attempts queries.
C10_PollerBounds ==
    /\ poll.queries <= max_attempts
    /\ (poll.kind = "succeeded" /\ poll.at <= max_attempts) =>
          IF poll.outcome = None THEN poll.queries < poll.at
          ELSE poll.outcome = "succeeded" /\ poll.queries = poll.at
    /\ (poll.kind = "never" \/ poll.at > max_attempts) =>
          IF poll.outcome = None THEN poll.queries <= max_attempts
          ELSE poll.outcome = "timeout" /\ poll.queries = max_attempts

\* C10 witness: the poll of the conversion has timed out after max_attempts
\* queries, in a request whose enhancement poll had returned a succeeded job
C10_Witness ==
    /\ pipe.pc = "convert_result"
    /\ poll.stage = "Convert3D" /\ poll.kind = "never"
    /\ poll.outcome = "timeout" /\ poll.queries = max_attempts
    /\ pipe.image = "enhanced"

\* the ways the 3D conversion fails: the submit, a status query, the job as
\* the provider reports it, the polling timeout, an unusable output
ConvertFailures == {"submit_error", "http_error", "failed", "timeout", "empty", "not_dict"}

C11_TransportErrorImmediate ==
    [][ /\ (poll'.kind = "http_error" /\ poll'.at <= max_attempts) =>
              IF poll'.outcome = None THEN poll'.queries < poll'.at
              ELSE poll'.outcome = "http_error" /\ poll'.queries = poll'.at
        /\ poll.outcome = "http_error" => poll' \in {poll, NoPoll} ]_vars

\* C11 witness: the poll of the conversion has ended with the error of its
\* first status query, with attempts left
C11_Witness ==
    /\ pipe.pc = "convert_result"
    /\ poll.kind = "http_error" /\ poll.at = 1
    /\ poll.outcome = "http_error" /\ poll.queries = 1
    /\ poll.queries < max_attempts

\* a stage of the request used its fallback: the default analysis, the
\* original image in place of the enhanced one, the procedural model
UsedFallback(p) ==
    p.analysis = "default" \/ p.image = "original" \/ p.model = "procedural"

\* C12: the result of every successful production run carries a tag
\* fallback_path, true when a stage of the run used its fallback and false
\* when none did.
C12_FallbackTagged ==
    (pipe.pc = "done" /\ pipe.code = 200 /\ ~pipe.development_mode) =>
        /\ "fallback_path" \in DOMAIN Result(pipe)
        /\ Result(pipe).fallback_path = UsedFallback(pipe)

\* C13: two runs of the procedural branch for the same request (the request
\* made again, a retry) produce the same model reference.
C13_ProceduralReferenceStable ==
    \A a \in procedural_runs, b \in procedural_runs :
        a.breed = b.breed => a.model_id = b.model_id


\* the answers of the analysis provider that are an error, a non-success
\* response or a malformed response
AnalyzeFailures == {"transport_error", "non_200", "not_json", "not_object", "wrong_type"}

\* C22: when the analysis provider fails, answers with a non-success response
\* or with a malformed one, the Analyze stage ends with the default
\* analysis, whose breed is the caller's hint, or "Mixed Breed" without a
\* hint, and whose other fields depend on the hint only; the request does
\* not fail in that stage, and the following stage runs.
C22_AnalyzeNeverFails ==
    (pipe.analyze_answer \in AnalyzeFailures) =>
        /\ pipe.analysis = "default"
        /\ pipe.analysis_breed = IF pipe.breed = None THEN "Mixed Breed" ELSE pipe.breed
        /\ pipe.analysis_confidence = IF pipe.breed = None THEN 70 ELSE 90
        /\ pipe.stages[1] = "Analyze"
        /\ pipe.pc \notin {"idle", "development", "analyze"}
        /\ pipe.pc = "done" => Len(pipe.stages) > 1

\* C22 witness: a request with a breed hint whose analysis answer was
\* malformed has been answered with the success result on the default
\* analysis of that hint
C22_Witness ==
    /\ pipe.pc = "done" /\ pipe.code = 200
    /\ pipe.analyze_answer = "wrong_type" /\ pipe.breed = "Labrador"
    /\ pipe.analysis = "default" /\ pipe.analysis_breed = "Labrador"


\* the ways the Enhance stage fails: the submit, a status query, the job as
\* the provider reports it, the polling timeout, an empty output
EnhanceFailures == {"submit_error", "http_error", "failed", "timeout", "empty"}

\* C23: once the Enhance stage has failed, in whichever way, the stage has
\* yielded the original image, the request has gone on to the 3D conversion
\* and not to a failure or to the procedural model directly, and the
\* conversion is submitted with the original image as its input.
C23_EnhanceNeverFails ==
    (pipe.enhance \in EnhanceFailures) =>
        /\ pipe.image = "original"
        /\ pipe.pc \notin {"enhance_submit", "enhance_poll", "enhance_result"}
        /\ pipe.pc # "convert_submit" =>
              /\ pipe.convert_input = "original"
              /\ \E i \in 1..Len(pipe.stages) :
                    /\ i > 1 /\ pipe.stages[i - 1] = "Enhance"
                    /\ pipe.stages[i] = "Convert3D"

\* C23 witness: the enhancement job was reported failed by the provider, and
\* the conversion, run on the original image, has given the model of the
\* request's successful answer
C23_Witness ==
    /\ pipe.pc = "done" /\ pipe.code = 200
    /\ pipe.enhance = "failed" /\ pipe.image = "original"
    /\ pipe.convert_input = "original" /\ pipe.convert = "ok" /\ pipe.model = "real"


\* C24: when the Optimize or the GenerateFormats stage raises, the request
\* is answered with a failure that carries the cause (500, success = false),
\* the raising stage is the last one of the run, and no success result is
\* produced: a run whose model reference makes GenerateFormats raise never
\* reaches the result.
C24_HardFailure ==
    /\ (pipe.error # None /\ pipe.stages # <<>>
           /\ pipe.stages[Len(pipe.stages)] \in {"Optimize", "GenerateFormats"}) =>
          /\ pipe.pc = "done" /\ pipe.code = 500 /\ ~pipe.success
          /\ pipe.error = "AttributeError"
    /\ pipe.model = "real_dict" =>
          /\ pipe.pc \in {"optimize", "formats", "done"}
          /\ pipe.pc = "done" =>
                /\ pipe.code = 500 /\ ~pipe.success /\ pipe.error = "AttributeError"
                /\ pipe.stages[Len(pipe.stages)] = "GenerateFormats"

\* C24 witness: GenerateFormats raised on the model reference of a
\* successful conversion, and the request was answered 500 with the cause
C24_Witness ==
    /\ pipe.pc = "done" /\ pipe.code = 500 /\ ~pipe.success
    /\ pipe.error = "AttributeError" /\ pipe.convert = "ok"
    /\ pipe.stages = <<"Analyze", "Enhance", "Convert3D", "Optimize", "GenerateFormats">>


\* the place of a stage in the order of the pipeline; the procedural model
\* is the substitute of the conversion and comes after it when both run
StageRank(stage) ==
    CASE stage = "Analyze"         -> 1
      [] stage = "Enhance"         -> 2
      [] stage = "Convert3D"       -> 3
      [] stage = "Procedural"      -> 4
      [] stage = "Optimize"        -> 5
      [] stage = "GenerateFormats" -> 6

\* the request is inside a stage that has started and not finished
MidStage(p) == p.pc \in {"enhance_poll", "enhance_result", "convert_poll", "convert_result"}

\* C25: the stages a run has started are in the order Analyze, Enhance,
\* Convert3D, procedural substitute, Optimize, GenerateFormats, each at most
\* once; a stage starts only in a step taken when no stage of the run is
\* unfinished; while a stage is unfinished it is the last one started, and
\* the provider job in flight is that stage's.
C25_StagesInOrder ==
    [][ /\ \A i \in 1..Len(pipe'.stages), k \in 1..Len(pipe'.stages) :
              i < k => StageRank(pipe'.stages[i]) < StageRank(pipe'.stages[k])
        /\ (pipe'.stages # pipe.stages /\ pipe'.stages # <<>>) =>
              /\ ~MidStage(pipe)
              /\ Len(pipe'.stages) = Len(pipe.stages) + 1
              /\ SubSeq(pipe'.stages, 1, Len(pipe.stages)) = pipe.stages
        /\ MidStage(pipe') =>
              /\ pipe'.stages # <<>>
              /\ pipe'.stages[Len(pipe'.stages)] =
                    (IF pipe'.pc \in {"enhance_poll", "enhance_result"}
                     THEN "Enhance" ELSE "Convert3D")
        /\ poll'.stage # None =>
              /\ MidStage(pipe')
              /\ poll'.stage = pipe'.stages[Len(pipe'.stages)] ]_vars

\* C25 witness: a run has gone through every stage, the procedural
\* substitute after a conversion whose status query failed
C25_Witness ==
    /\ pipe.pc = "done" /\ pipe.convert = "http_error" /\ pipe.enhance = "ok"
    /\ pipe.stages = <<"Analyze", "Enhance", "Convert3D", "Procedural", "Optimize",
                       "GenerateFormats">>


\* C26: a submission that is admitted stores a job with status pending and
\* progress 0 and is answered with it in the same step, its task only
\* scheduled; a job leaves pending only in a step of its background task;
\* and a stage of the generation pipeline runs only after the request that
\* submitted it has been answered, never while that request waits.
C26_SubmissionNotAwaited ==
    [][ /\ \A j \in JobIds :
              /\ (~job_storage[j].has /\ job_storage'[j].has) =>
                    /\ job_storage'[j].status = "pending"
                    /\ job_storage'[j].progress = 0
                    /\ task'[j].pc = "scheduled"
                    /\ resp' = Response("generate", j, 200)
              /\ (job_storage[j].has /\ job_storage'[j].has
                    /\ job_storage[j].status = "pending"
                    /\ job_storage'[j].status # "pending") =>
                    task[j].pc = "scheduled" /\ task'[j].pc # "scheduled"
        /\ (pipe'.stages # pipe.stages /\ pipe'.stages # <<>>) =>
              pipe.code = 200 ]_vars


\* the options payloads that are unrecognized or malformed
MalformedOptions == {"bad_json", "not_object", "unknown_keys", "wrong_type"}

\* C30: a request whose options payload is no JSON, no JSON object, an
\* object of unknown keys or an object with a value of the wrong type is
\* taken with every option at its default, and is not answered with an
\* error on account of its options.
C30_OptionsLenient ==
    (pipe.optKind \in MalformedOptions) =>
        /\ pipe.options = "defaults"
        /\ pipe.error # "ValidationError"
        /\ (pipe.pc = "done" /\ pipe.code = 500) => pipe.stages # <<>>


\* C35: a job the provider reports failed on status query k ends the poll
\* after exactly k queries with the result 'failed' (the poll neither goes on
\* nor ends with an error); the Enhance stage then yields the original image
\* and goes on to the conversion, and the Convert3D stage goes on to the
\* procedural branch.
C35_ProviderFailed ==
    /\ (poll.kind = "failed" /\ poll.at <= max_attempts) =>
          IF poll.outcome = None THEN poll.queries < poll.at
          ELSE poll.outcome = "failed" /\ poll.queries = poll.at
    /\ pipe.enhance = "failed" =>
          /\ pipe.image = "original"
          /\ pipe.pc \notin {"enhance_submit", "enhance_poll", "enhance_result"}
          /\ pipe.pc # "convert_submit" => pipe.convert_input = "original"
    /\ pipe.convert = "failed" =>
          /\ pipe.pc \notin {"convert_submit", "convert_poll", "convert_result"}
          /\ pipe.pc = "procedural" \/ pipe.procedural # None
          /\ pipe.model \in {None, "procedural"}

\* C35 witness: the provider has reported the conversion failed on the
\* second status query and the poll has returned it, in a request whose
\* enhancement the provider had reported failed too
C35_Witness ==
    /\ pipe.pc = "convert_result"
    /\ poll.stage = "Convert3D" /\ poll.kind = "failed" /\ poll.at = 2
    /\ poll.outcome = "failed" /\ poll.queries = 2
    /\ pipe.enhance = "failed" /\ pipe.convert_input = "original"

\* the stages of a production run that has no provider token
NoTokenStages == <<"Analyze", "Procedural", "Optimize", "GenerateFormats">>

BatchLimit == 3

Breeds == {"Labrador", "Poodle"}
BatchItems == Breeds \cup {"load_raises", "predict_raises"}

\* the request bodies: lists of up to one item more than the limit
BatchInputs == UNION {[1..n -> BatchItems] : n \in 0..(BatchLimit + 1)}

\* lines 228-236: the prediction with its batch_index
ResultEntry(index, breed) ==
    [batch_index |-> index, error |-> None, predicted_breed |-> breed]

\* lines 240-245: the entry of an item that raised
ErrorEntry(index, cause) ==
    [batch_index |-> index, error |-> cause, predicted_breed |-> None]

ItemExceptAborts(b, cause) == [b EXCEPT !.pc = "done", !.code = 500]

\* lines 238-245: the inner handler appends the error entry and the loop
\* goes on with the next item
ItemExcept(b, cause) ==
    [b EXCEPT !.pc = "next", !.results = Append(@, ErrorEntry(b.i, cause)), !.i = b.i + 1]

InitBatch ==
    /\ now = 0
    /\ IdleRL /\ IdleKey /\ IdleSBS /\ IdleJobs /\ IdlePipe
    /\ batch \in {[NoBatch EXCEPT !.inference_engine = e] : e \in BOOLEAN}

NotBatchVars == <<now, rlVars, keyVars, sbsVars, jobVars, pipeVars>>

\* lines 216-220: 503 without an engine, 400 for more than the limit
BatchDetectBreeds ==
    /\ batch.pc \in {"idle", "done"}
    /\ \E requests \in BatchInputs :
          LET req == [NoBatch EXCEPT !.inference_engine = batch.inference_engine,
                                     !.requests = requests]
          IN batch' = IF ~batch.inference_engine
                      THEN [req EXCEPT !.pc = "done", !.code = 503]
                      ELSE IF Len(requests) > BatchLimit
                      THEN [req EXCEPT !.pc = "done", !.code = 400]
                      ELSE [req EXCEPT !.pc = "next"]
    /\ UNCHANGED NotBatchVars

\* line 224: for i, request in enumerate(requests); line 226: _load_image
BatchLoadImage ==
    /\ batch.pc = "next"
    /\ batch.i < Len(batch.requests)
    /\ LET item == batch.requests[batch.i + 1]
           b == [batch EXCEPT !.loaded = @ + 1]
       IN batch' = IF item = "load_raises" THEN ItemExcept(b, "load")
                   ELSE [b EXCEPT !.pc = "predict"]
    /\ UNCHANGED NotBatchVars

\* lines 228-236: inference_engine.predict, then the entry is appended
BatchPredict ==
    /\ batch.pc = "predict"
    /\ LET item == batch.requests[batch.i + 1]
       IN batch' = IF item = "predict_raises" THEN ItemExcept(batch, "predict")
                   ELSE [batch EXCEPT !.pc = "next",
                                      !.results = Append(@, ResultEntry(batch.i, item)),
                                      !.i = batch.i + 1]
    /\ UNCHANGED NotBatchVars

\* line 247: the loop is over
BatchReturn ==
    /\ batch.pc = "next"
    /\ batch.i = Len(batch.requests)
    /\ batch' = [batch EXCEPT !.pc = "done", !.code = 200,
                              !.total_processed = Len(batch.results)]
    /\ UNCHANGED NotBatchVars

NextBatch == BatchDetectBreeds \/ BatchLoadImage \/ BatchPredict \/ BatchReturn

SpecBatch == InitBatch /\ [][NextBatch]_vars

\* the entry item k (from 0) of a batch must get
ExpectedEntry(requests, k) ==
    LET item == requests[k + 1]
    IN IF item = "load_raises" THEN ErrorEntry(k, "load")
       ELSE IF item = "predict_raises" THEN ErrorEntry(k, "predict")
       ELSE ResultEntry(k, item)

\* C39: with the engine loaded, a batch of n <= limit requests is answered
\* with exactly n entries, the i-th with batch_index i and built from the
\* i-th request alone: the prediction of its image, or an error entry when
\* loading or predicting it raised, whatever happened to the other items; a
\* batch of more than limit requests is rejected before any item is loaded.
C39_BatchResults ==
    batch.inference_engine =>
        /\ Len(batch.results) = batch.i
        /\ \A k \in 0..(Len(batch.results) - 1) :
              batch.results[k + 1] = ExpectedEntry(batch.requests, k)
        /\ batch.pc = "done" =>
              IF Len(batch.requests) <= BatchLimit
              THEN /\ batch.code = 200
                   /\ Len(batch.results) = Len(batch.requests)
                   /\ batch.total_processed = Len(batch.requests)
              ELSE /\ batch.code = 400
                   /\ batch.results = <<>> /\ batch.loaded = 0
        /\ Len(batch.requests) > BatchLimit => batch.pc = "done"

\* C39 witness: a batch of three whose second image did not load has been
\* answered, with the predictions of the first and the third
C39_Witness ==
    /\ batch.pc = "done" /\ batch.code = 200
    /\ batch.requests = <<"Labrador", "load_raises", "Poodle">>
    /\ Len(batch.results) = 3 /\ batch.results[1].predicted_breed = "Labrador"
    /\ batch.results[2].error = "load" /\ batch.results[3].predicted_breed = "Poodle"

(***************************************************************************)
(* SpecLive: the job endpoints and the enhanced endpoint under fair        *)
(* scheduling.  The two families share no state: a run serves the job      *)
(* endpoints or the enhanced endpoint.  The event loop resumes every task  *)
(* that can run, and every external call returns or raises: each step of   *)
(* a background task and of the pipeline is weakly fair.  Requests arrive  *)
(* or not: no fairness for the handlers.                                   *)
(***************************************************************************)
InitLive == Init \/ InitPipe

\* no request of the enhanced endpoint so far
PipeQuiet == IdleRL /\ pipe = NoPipe /\ poll = NoPoll /\ procedural_runs = {}

\* no request of the job endpoints so far, and no time passed
JobsQuiet == IdleJobs /\ now = 0

\* the clock, the handlers that write the registry, and the tasks; the
\* read-only handlers change the last response alone
JobTraffic ==
    PipeQuiet /\ (Tick(JobMaxTime) \/ GeneratePlanter \/ TaskStep \/ DeleteJob)

PipeTraffic == JobsQuiet /\ NextPipe

\* the steps of the pipeline after the request was admitted
PipeStep ==
    \/ GenerateDevelopmentModelEnhanced
    \/ AnalyzePetImageEnhanced
    \/ GenerateWith3dServiceEnhanced
    \/ EnhanceSubmit
    \/ EnhancePoll
    \/ EnhanceResult
    \/ ConvertSubmit
    \/ ConvertPoll
    \/ ConvertResult
    \/ GenerateProceduralModelEnhanced
    \/ OptimizeModelEnhanced
    \/ GenerateAdditionalFormats
    \/ Assemble

NextLive == JobTraffic \/ PipeTraffic

Fairness ==
    /\ \A j \in JobIds : WF_vars(PipeQuiet /\ TaskStepOf(j))
    /\ WF_vars(JobsQuiet /\ PipeStep)

SpecLive == InitLive /\ [][NextLive]_vars /\ Fairness

\* a poll loop is running
Polling == pipe.pc \in {"enhance_poll", "convert_poll"}

\* job j is in the registry and not yet completed or failed
InFlight(j) == job_storage[j].has /\ job_storage[j].status \notin Terminal

\* C33: no job stays pending or processing forever (every created job
\* reaches completed or failed), and no poll loop runs forever; a poll
\* loop makes no more than max_attempts queries.
C33_JobsTerminate ==
    /\ \A j \in JobIds : []<>(~InFlight(j))
    /\ []<>(~Polling)
    /\ [](poll.queries <= max_attempts)

\* C33 witness: one job failed in its exception handler and the other
\* completed, both tasks over
C33_Witness ==
    /\ job_storage[1].has /\ job_storage[1].status = "failed"
    /\ job_storage[2].has /\ job_storage[2].status = "completed"
    /\ task[1].pc = "done" /\ task[2].pc = "done"
=============================================================================
